---- MODULE Spec2Model ----
(***************************************************************************)
(* Model of assign_roles (source.py): the reduction of the player/role     *)
(* preference assignment to a minimum-cost flow on the layered network     *)
(* source -> player -> role -> sink, the flow computation, and the         *)
(* decoding of the flow into a player -> role mapping.                     *)
(***************************************************************************)
EXTENDS Integers, Sequences, FiniteSets, TLC

\* ---------------------------------------------------------------- bounds
MaxPlayers == 2
MaxPref == 2
MaxCap == 2

\* Role names that may occur as keys of `roles` and in preference lists.
\* A name that is not a key of `roles` is a role absent from the role set.
RoleNames == {"X", "Y"}

VARIABLES
    players,     \* the `players` argument: player i's preference list is players[i]
    roles,       \* the `roles` argument: role name -> capacity
    G,           \* the flow network under construction / constructed
    flowDict,    \* the result of min_cost_flow
    assignment,  \* the decoded player -> role mapping
    result,      \* "none", "returned" or "raised"
    error,       \* the message of the raised exception, "" if none
    pc           \* position in assign_roles

vars == <<players, roles, G, flowDict, assignment, result, error, pc>>

\* ---------------------------------------------------------------- helpers
Range(s) == {s[i] : i \in DOMAIN s}

EmptyMap == [x \in {} |-> 0]

RECURSIVE SumOver(_, _)
SumOver(f, S) ==
    IF S = {} THEN 0
    ELSE LET x == CHOOSE y \in S : TRUE
         IN  f[x] + SumOver(f, S \ {x})

PrefLists == UNION {[1..n -> RoleNames] : n \in 0..MaxPref}

PlayerInputs == UNION {[1..n -> PrefLists] : n \in 0..MaxPlayers}

RoleInputs == UNION {[D -> (-1)..MaxCap] : D \in SUBSET RoleNames}

\* ---------------------------------------------------------------- network
\* The number of roles instead of the sum of their capacities.
NumPositionsLen(rs) == Cardinality(DOMAIN rs)

\* num_positions = sum(roles.values())
NumPositions(rs) == SumOver(rs, DOMAIN rs)

\* The graph with the demands of the source and the sink left unset.
NewGraphNoDemand(rs) ==
    [demand |-> [source |-> 0, sink |-> 0],
     src    |-> EmptyMap,
     adj    |-> EmptyMap,
     attr   |-> EmptyMap,
     snk    |-> EmptyMap]

\* G = nx.DiGraph() with the source and sink nodes and their demands.
NewGraph(rs) ==
    [demand |-> [source |-> 0 - NumPositions(rs), sink |-> NumPositions(rs)],
     src    |-> EmptyMap,
     adj    |-> EmptyMap,
     attr   |-> EmptyMap,
     snk    |-> EmptyMap]

\* G.add_edge(source, player, capacity=1, weight=0) for every player.
SourceEdges(ps) == [p \in DOMAIN ps |-> [capacity |-> 1, weight |-> 0]]

\* G.add_edge(player, role, capacity=1, weight=rank) on a DiGraph: the
\* successors of a node keep their insertion order, and adding an edge that
\* exists replaces its attributes.  acc = [adj, attr] of one player.
AddEdgeKeepFirst(acc, role, rank) ==
    IF role \in Range(acc.adj)
    THEN acc
    ELSE [adj  |-> Append(acc.adj, role),
          attr |-> [r \in DOMAIN acc.attr \cup {role} |->
                      IF r = role THEN [capacity |-> 1, weight |-> rank]
                      ELSE acc.attr[r]]]

AddEdge(acc, role, rank) ==
    [adj  |-> IF role \in Range(acc.adj) THEN acc.adj ELSE Append(acc.adj, role),
     attr |-> [r \in DOMAIN acc.attr \cup {role} |->
                 IF r = role THEN [capacity |-> 1, weight |-> rank]
                 ELSE acc.attr[r]]]

RECURSIVE AddAll(_, _, _)
AddAll(acc, rs, rank) ==
    IF rs = {} THEN acc
    ELSE LET r == CHOOSE x \in rs : TRUE
         IN  AddAll(AddEdge(acc, r, rank), rs \ {r}, rank)

\* A variant of the inner loop that treats a name outside `roles` as a
\* wildcard for every role.
RECURSIVE PlayerEdgesWildcard(_, _, _, _)
PlayerEdgesWildcard(pref_list, rs, k, acc) ==
    IF k > Len(pref_list) THEN acc
    ELSE IF pref_list[k] \in DOMAIN rs
         THEN PlayerEdgesWildcard(pref_list, rs, k + 1,
                                  AddEdge(acc, pref_list[k], k - 1))
         ELSE PlayerEdgesWildcard(pref_list, rs, k + 1,
                                  AddAll(acc, DOMAIN rs, k - 1))

\* for rank, role in enumerate(pref_list): if role in roles: G.add_edge(...)
\* k is the one-based position, rank = k - 1.
RECURSIVE PlayerEdges(_, _, _, _)
PlayerEdges(pref_list, rs, k, acc) ==
    IF k > Len(pref_list) THEN acc
    ELSE IF pref_list[k] \in DOMAIN rs
         THEN PlayerEdges(pref_list, rs, k + 1, AddEdge(acc, pref_list[k], k - 1))
         ELSE PlayerEdges(pref_list, rs, k + 1, acc)

NoEdges == [adj |-> <<>>, attr |-> EmptyMap]

\* Sink edges with a negative capacity clamped to 0.
SinkEdgesClamped(rs) ==
    [r \in DOMAIN rs |-> [capacity |-> IF rs[r] < 0 THEN 0 ELSE rs[r], weight |-> 0]]

\* G.add_edge(role, sink, capacity=capacity, weight=0) for every role.
SinkEdges(rs) == [r \in DOMAIN rs |-> [capacity |-> rs[r], weight |-> 0]]

\* Steps 1-3 of assign_roles.
BuildNetwork(ps, rs) ==
    [demand |-> NewGraph(rs).demand,
     src    |-> SourceEdges(ps),
     adj    |-> [p \in DOMAIN ps |-> PlayerEdges(ps[p], rs, 1, NoEdges).adj],
     attr   |-> [p \in DOMAIN ps |-> PlayerEdges(ps[p], rs, 1, NoEdges).attr],
     snk    |-> SinkEdges(rs)]

\* ---------------------------------------------------------------- min-cost flow
\* The player -> role edges of the network.
PrefEdges(g) == {e \in (DOMAIN g.adj) \X RoleNames : e[2] \in Range(g.adj[e[1]])}

\* Every player -> role edge has capacity 1, so an integral flow is the set
\* f of player -> role edges that carry one unit; the flow on source -> p and
\* on r -> sink follows from conservation at p and at r.
OutOfPlayer(f, p) == Cardinality({e \in f : e[1] = p})

IntoRole(f, r) == Cardinality({e \in f : e[2] = r})

\* Capacity constraints only: the supply at the source and the demand at the
\* sink are read as upper limits.
IsFeasibleFlowAtMost(g, f) ==
    /\ \A p \in DOMAIN g.src : OutOfPlayer(f, p) <= g.src[p].capacity
    /\ \A r \in DOMAIN g.snk : IntoRole(f, r) <= g.snk[r].capacity
    /\ Cardinality(f) <= 0 - g.demand.source
    /\ Cardinality(f) <= g.demand.sink

\* The demands only: the capacity of the role -> sink edges is not enforced.
IsFeasibleFlowNoSinkCap(g, f) ==
    /\ \A p \in DOMAIN g.src : OutOfPlayer(f, p) <= g.src[p].capacity
    /\ Cardinality(f) = 0 - g.demand.source
    /\ Cardinality(f) = g.demand.sink

\* f respects every edge capacity and satisfies the node demands: the net
\* outflow of the source and the net inflow of the sink equal num_positions.
IsFeasibleFlow(g, f) ==
    /\ \A p \in DOMAIN g.src : OutOfPlayer(f, p) <= g.src[p].capacity
    /\ \A r \in DOMAIN g.snk : IntoRole(f, r) <= g.snk[r].capacity
    /\ Cardinality(f) = 0 - g.demand.source
    /\ Cardinality(f) = g.demand.sink

\* min_cost_flow rejects a network with an edge of negative capacity.
HasNegativeCapacity(g) == \E r \in DOMAIN g.snk : g.snk[r].capacity < 0

FeasibleFlows(g) ==
    IF HasNegativeCapacity(g) THEN {}
    ELSE {f \in SUBSET PrefEdges(g) : IsFeasibleFlow(g, f)}

\* Sum of flow * weight; only player -> role edges have a weight other than 0.
RECURSIVE FlowCost(_, _)
FlowCost(g, f) ==
    IF f = {} THEN 0
    ELSE LET e == CHOOSE x \in f : TRUE
         IN  g.attr[e[1]][e[2]].weight + FlowCost(g, f \ {e})

\* Any feasible flow, of whatever cost.
AnyFeasibleFlows(g) == FeasibleFlows(g)

\* The flows min_cost_flow may return: the feasible flows of minimum cost.
MinCostFlows(g) ==
    {f \in FeasibleFlows(g) : \A h \in FeasibleFlows(g) : FlowCost(g, f) <= FlowCost(g, h)}

\* The dictionary of dictionaries min_cost_flow returns for the flow f.
FlowDictOf(g, f) ==
    [source |-> [p \in DOMAIN g.src |-> OutOfPlayer(f, p)],
     player |-> [p \in DOMAIN g.adj |->
                   [r \in Range(g.adj[p]) |-> IF <<p, r>> \in f THEN 1 ELSE 0]],
     role   |-> [r \in DOMAIN g.snk |-> IntoRole(f, r)]]

\* ---------------------------------------------------------------- decoding
\* for role, flow in flowDict[player].items(): if flow > 0: ...; break
\* The items come in the order of the player's successors in G.
FirstPositive(order, flows) ==
    LET hits == {i \in DOMAIN order : flows[order[i]] > 0}
    IN  IF hits = {} THEN 0
        ELSE CHOOSE i \in hits : \A j \in hits : i <= j

\* Decoding that takes the first successor whatever its flow.
ParseFlowNoCheck(g, fd) ==
    LET assigned == {p \in DOMAIN fd.player : Len(g.adj[p]) > 0}
    IN  [p \in assigned |-> g.adj[p][1]]

\* Step 5 of assign_roles.
ParseFlow(g, fd) ==
    LET assigned == {p \in DOMAIN fd.player : FirstPositive(g.adj[p], fd.player[p]) > 0}
    IN  [p \in assigned |-> g.adj[p][FirstPositive(g.adj[p], fd.player[p])]]

\* ---------------------------------------------------------------- state machine
NoFlow == [source |-> EmptyMap, player |-> EmptyMap, role |-> EmptyMap]

NoFeasibleMsg == "No feasible assignment exists with the given preferences and role limits."

Init ==
    /\ players \in PlayerInputs
    /\ roles \in RoleInputs
    /\ G = NewGraph(roles)
    /\ flowDict = NoFlow
    /\ assignment = EmptyMap
    /\ result = "none"
    /\ error = ""
    /\ pc = "build"

Build ==
    /\ pc = "build"
    /\ G' = BuildNetwork(players, roles)
    /\ pc' = "solve"
    /\ UNCHANGED <<players, roles, flowDict, assignment, result, error>>

\* min_cost_flow raises NetworkXUnfeasible, re-raised as a plain Exception.
SolveRaise ==
    /\ pc = "solve"
    /\ FeasibleFlows(G) = {}
    /\ result' = "raised"
    /\ error' = NoFeasibleMsg
    /\ pc' = "done"
    /\ UNCHANGED <<players, roles, G, flowDict, assignment>>

SolveOk ==
    /\ pc = "solve"
    /\ \E f \in MinCostFlows(G) : flowDict' = FlowDictOf(G, f)
    /\ pc' = "parse"
    /\ UNCHANGED <<players, roles, G, assignment, result, error>>

Decode ==
    /\ pc = "parse"
    /\ assignment' = ParseFlow(G, flowDict)
    /\ result' = "returned"
    /\ pc' = "done"
    /\ UNCHANGED <<players, roles, G, flowDict, error>>

Next == Build \/ SolveRaise \/ SolveOk \/ Decode

Spec == Init /\ [][Next]_vars

\* ---------------------------------------------------------------- input-level notions
Returned == pc = "done" /\ result = "returned"

Raised == pc = "done" /\ result = "raised"

ValidInput == \A r \in DOMAIN roles : roles[r] >= 0

TotalCapacity == SumOver(roles, DOMAIN roles)

\* The roles of the role set that player p lists.
Listed(p) == Range(players[p]) \cap DOMAIN roles

Eligible == {p \in DOMAIN players : Listed(p) # {}}

Positions(p, r) == {k \in DOMAIN players[p] : players[p][k] = r}

FirstRank(p, r) == (CHOOSE k \in Positions(p, r) : \A j \in Positions(p, r) : k <= j) - 1

LastRank(p, r) == (CHOOSE k \in Positions(p, r) : \A j \in Positions(p, r) : k >= j) - 1

Count(a, r) == Cardinality({p \in DOMAIN a : a[p] = r})

\* Every mapping of some of the players to role names.
Candidates == UNION {[P -> RoleNames] : P \in SUBSET DOMAIN players}

IsFeasibleAssignment(a) ==
    /\ \A p \in DOMAIN a : a[p] \in Listed(p)
    /\ \A r \in DOMAIN roles : Count(a, r) <= roles[r]

FillsEveryRole(a) == \A r \in DOMAIN roles : Count(a, r) = roles[r]

RECURSIVE CostFirst(_, _)
CostFirst(a, P) ==
    IF P = {} THEN 0
    ELSE LET p == CHOOSE x \in P : TRUE
         IN  FirstRank(p, a[p]) + CostFirst(a, P \ {p})

RECURSIVE CostLast(_, _)
CostLast(a, P) ==
    IF P = {} THEN 0
    ELSE LET p == CHOOSE x \in P : TRUE
         IN  LastRank(p, a[p]) + CostLast(a, P \ {p})

\* ---------------------------------------------------------------- claims
\* C1: a returned assignment maps each player to at most one role (at most
\* one of a player's outgoing edges carries flow), never maps more players to
\* a role than its capacity, and maps a player only to a role of the role set
\* that the player lists.
C1_Feasibility ==
    /\ pc \in {"parse", "done"} /\ result # "raised" =>
         \A p \in DOMAIN flowDict.player :
            Cardinality({r \in DOMAIN flowDict.player[p] : flowDict.player[p][r] > 0}) <= 1
    /\ Returned =>
         /\ DOMAIN assignment \subseteq DOMAIN players
         /\ \A p \in DOMAIN assignment :
               /\ assignment[p] \in DOMAIN roles
               /\ \E k \in DOMAIN players[p] : players[p][k] = assignment[p]
         /\ \A r \in DOMAIN roles : Count(assignment, r) <= roles[r]

C1_Witness ==
    /\ Returned
    /\ Cardinality(DOMAIN assignment) = 2
    /\ \E p \in DOMAIN players : Cardinality(Listed(p)) = 2

\* C2 as stated: the returned assignment costs no more (sum of the assigned
\* roles' zero-based ranks) than any capacity-respecting assignment of listed
\* roles, assignments of fewer players included.
C2_Original ==
    Returned =>
        \A a \in Candidates :
            IsFeasibleAssignment(a) =>
                CostFirst(assignment, DOMAIN assignment) <= CostFirst(a, DOMAIN a)

\* C2 amended: the returned assignment costs no more than any feasible
\* assignment that fills every role to its capacity, the rank of a role a
\* list repeats being that of its last occurrence.
C2_Optimality ==
    Returned =>
        \A a \in Candidates :
            IsFeasibleAssignment(a) /\ FillsEveryRole(a) =>
                CostLast(assignment, DOMAIN assignment) <= CostLast(a, DOMAIN a)

C2_Witness ==
    /\ Returned
    /\ \E a \in Candidates :
          /\ IsFeasibleAssignment(a) /\ FillsEveryRole(a)
          /\ CostLast(a, DOMAIN a) > CostLast(assignment, DOMAIN assignment)

C4_Original ==
    ValidInput /\ Len(players) < TotalCapacity =>
        /\ pc # "build" => 0 - G.demand.source = Len(players)
        /\ pc = "done" => result = "returned"

\* C4 amended: with fewer players than total capacity the source supply and
\* the sink demand are the total capacity, not capped, and assign_roles
\* raises instead of returning.
C4_Uncapped ==
    Len(players) < TotalCapacity /\ pc # "build" =>
        /\ G.demand.source = 0 - TotalCapacity
        /\ G.demand.sink = TotalCapacity
        /\ pc \in {"solve", "done"}
        /\ pc = "done" => result = "raised" /\ assignment = EmptyMap

C4_Witness ==
    /\ Raised
    /\ ValidInput
    /\ Len(players) >= 1
    /\ Len(players) < TotalCapacity

\* C5: when every role has capacity 0, assign_roles returns the empty
\* assignment and does not raise, whatever the players are.
C5_ZeroCapacity ==
    (\A r \in DOMAIN roles : roles[r] = 0) /\ pc = "done" =>
        /\ result = "returned"
        /\ error = ""
        /\ assignment = EmptyMap

C5_Witness ==
    /\ Returned
    /\ DOMAIN roles = RoleNames
    /\ \A r \in DOMAIN roles : roles[r] = 0
    /\ Cardinality(Eligible) >= 2

\* C6: a player whose list is empty or names only roles outside the role set
\* is never in the returned assignment.
C6_NoEdgeNoRole ==
    Returned => \A p \in (DOMAIN players) \ Eligible : p \notin DOMAIN assignment

C6_Witness ==
    /\ Returned
    /\ assignment # EmptyMap
    /\ \E p \in (DOMAIN players) \ Eligible : Len(players[p]) >= 1

\* C7: assign_roles raises, with no assignment, exactly when the players'
\* lists and the capacities admit no way to fill every role to its capacity
\* (in particular when the total capacity exceeds the number of eligible
\* players); in every other case it returns an assignment.
C7_RaisesIffInfeasible ==
    pc = "done" =>
        /\ result \in {"raised", "returned"}
        /\ result = "raised" <=>
              ~ \E a \in Candidates : IsFeasibleAssignment(a) /\ FillsEveryRole(a)
        /\ result = "raised" => assignment = EmptyMap /\ flowDict = NoFlow
        /\ TotalCapacity > Cardinality(Eligible) => result = "raised"

C7_Witness ==
    /\ Raised
    /\ ValidInput
    /\ TotalCapacity <= Cardinality(Eligible)
    /\ TotalCapacity >= 1

\* C8 as stated: a negative capacity is rejected while the network is built,
\* before the flow computation, with an error other than the infeasibility
\* error.
C8_Original ==
    (\E r \in DOMAIN roles : roles[r] < 0) =>
        /\ pc # "solve"
        /\ pc = "done" => result = "raised" /\ error # NoFeasibleMsg

\* C8 amended: with a negative capacity the network is built in full, and
\* the flow computation then raises the same exception as for infeasibility.
C8_NegativeCapacity ==
    (\E r \in DOMAIN roles : roles[r] < 0) =>
        /\ pc \in {"build", "solve", "done"}
        /\ pc # "build" => DOMAIN G.snk = DOMAIN roles /\ DOMAIN G.src = DOMAIN players
        /\ pc = "done" => result = "raised" /\ error = NoFeasibleMsg /\ assignment = EmptyMap

C8_Witness ==
    /\ Raised
    /\ \E r \in DOMAIN roles : roles[r] < 0
    /\ TotalCapacity >= 0
    /\ Cardinality(Eligible) >= 1

\* C9: in the built network each (player, listed role of the role set) pair
\* has exactly one edge, of capacity 1, whose cost is the zero-based rank of
\* the role's last occurrence in the list (its position if it occurs once);
\* no other player -> role edge exists.
C9_LastOccurrence ==
    pc # "build" =>
        \A p \in DOMAIN players :
            /\ Range(G.adj[p]) = Listed(p)
            /\ DOMAIN G.attr[p] = Listed(p)
            /\ Len(G.adj[p]) = Cardinality(Listed(p))
            /\ \A r \in Listed(p) :
                  /\ G.attr[p][r].weight = LastRank(p, r)
                  /\ G.attr[p][r].capacity = 1

C9_Witness ==
    /\ pc # "build"
    /\ \E p \in DOMAIN players : \E r \in Listed(p) :
          /\ Cardinality(Positions(p, r)) >= 2
          /\ G.attr[p][r].weight = Len(players[p]) - 1
    /\ \E p \in DOMAIN players : \E r \in Listed(p) :
          /\ Cardinality(Positions(p, r)) = 1
          /\ G.attr[p][r].weight = 1

\* C10: a returned assignment fills every role exactly to its capacity, so
\* the number of assigned players is the total capacity.
C10_ExactSaturation ==
    Returned =>
        /\ \A r \in DOMAIN roles : Count(assignment, r) = roles[r]
        /\ Cardinality(DOMAIN assignment) = TotalCapacity

C10_Witness ==
    /\ Returned
    /\ TotalCapacity >= 1
    /\ \E r \in DOMAIN roles : roles[r] = 0
    /\ Cardinality(Eligible) > TotalCapacity
====
